---- MODULE Spec2Model ----
(***************************************************************************)
(* A model of the README generator's request handler                       *)
(* (src/src/app/api/generate-readme/route.ts): the recursive file walk     *)
(* listFiles, and POST, step by step at its await points: credential      *)
(* check, body parsing, URL validation, mkdtemp, clone, context            *)
(* extraction, the key-file loop, the generation call, response            *)
(* processing, the catch block and the finally block.                      *)
(*                                                                         *)
(* Text is modelled by what the code reads of it.  A file name is a run of *)
(* `pad` filler characters "x" followed by an explicit tail of characters, *)
(* so that names hundreds of characters long stay small; a relative path   *)
(* is the sequence of its components, joined by "/".  The Extracted        *)
(* Context is the sequence of the pieces appended to it, each with the     *)
(* length of the template string that produced it.  An error message is a  *)
(* sequence of words.                                                      *)
(***************************************************************************)
EXTENDS Integers, Sequences, FiniteSets, TLC

\* ------------------------------------------------------------ constants

MAX_FILE_READ_SIZE_BYTES == 51200
MAX_TOTAL_CONTEXT_LENGTH == 15000
MAX_FILES_TO_LIST == 100
MAX_FILE_CONTENT_TO_INCLUDE == 10

\* ------------------------------------------------- bounds of the inputs

\* The number of bulk files of a small repository.
SmallBulk == 3
\* How many bulk files beyond MAX_FILES_TO_LIST a large repository holds.
OverCap == 2
\* The filler length of a long file or directory name.
LongPad == 150

\* ------------------------------------------------------------- helpers

Min(a, b) == IF a < b THEN a ELSE b

Max(a, b) == IF a > b THEN a ELSE b

RECURSIVE DecLen(_)
\* The number of characters of `${n}` for a non-negative integer.
DecLen(n) == IF n < 10 THEN 1 ELSE 1 + DecLen(n \div 10)

RECURSIVE Digits(_)
\* The decimal digits of n, as characters.
Digits(n) ==
    LET d == <<"0", "1", "2", "3", "4", "5", "6", "7", "8", "9">>[(n % 10) + 1]
    IN  IF n < 10 THEN <<d>> ELSE Append(Digits(n \div 10), d)

Upper == <<"A", "B", "C", "D", "E", "F", "G", "H", "I", "J", "K", "L", "M",
           "N", "O", "P", "Q", "R", "S", "T", "U", "V", "W", "X", "Y", "Z">>

Lower == <<"a", "b", "c", "d", "e", "f", "g", "h", "i", "j", "k", "l", "m",
           "n", "o", "p", "q", "r", "s", "t", "u", "v", "w", "x", "y", "z">>

\* The lower-case letter of each upper-case letter.
LowerOf == [c \in {Upper[k] : k \in 1..26} |-> Lower[CHOOSE k \in 1..26 : Upper[k] = c]]

\* String.prototype.toLowerCase, on a sequence of characters.
toLowerCase(s) ==
    [i \in 1..Len(s) |-> IF s[i] \in DOMAIN LowerOf THEN LowerOf[s[i]] ELSE s[i]]

\* ---------------------------------------------------- names and paths

Name(pad, tail) == [pad |-> pad, tail |-> tail]

NameLen(n) == n.pad + Len(n.tail)

\* The last k characters of a name (the whole name when it is shorter).
NameSuffix(n, k) ==
    IF k <= Len(n.tail)
    THEN SubSeq(n.tail, Len(n.tail) - k + 1, Len(n.tail))
    ELSE [i \in 1..(Min(k, NameLen(n)) - Len(n.tail)) |-> "x"] \o n.tail

\* dirent.name === s
NameIs(n, s) == NameLen(n) = Len(s) /\ NameSuffix(n, Len(s)) = s

RECURSIVE PathLen(_)
\* The length of path.relative(rootDir, res): the components and the
\* separators between them.
PathLen(p) ==
    IF Len(p) = 0 THEN 0
    ELSE IF Len(p) = 1 THEN NameLen(p[1])
    ELSE PathLen(SubSeq(p, 1, Len(p) - 1)) + 1 + NameLen(p[Len(p)])

RECURSIVE PathSuffix(_, _)
\* The last k characters of a relative path (the whole path when shorter).
PathSuffix(p, k) ==
    IF Len(p) = 0 \/ k <= 0 THEN << >>
    ELSE LET last == p[Len(p)]
         IN  IF k <= NameLen(last) \/ Len(p) = 1
             THEN NameSuffix(last, k)
             ELSE PathSuffix(SubSeq(p, 1, Len(p) - 1), k - NameLen(last) - 1)
                  \o <<"/">> \o NameSuffix(last, NameLen(last))

\* f.toLowerCase().endsWith(key.toLowerCase())
endsWith(p, key) ==
    /\ PathLen(p) >= Len(key)
    /\ toLowerCase(PathSuffix(p, Len(key))) = toLowerCase(key)

DotGit == <<".", "g", "i", "t">>

NodeModules == <<"n", "o", "d", "e", "_", "m", "o", "d", "u", "l", "e", "s">>

keyFiles == <<
    <<"p", "a", "c", "k", "a", "g", "e", ".", "j", "s", "o", "n">>,
    <<"c", "o", "m", "p", "o", "s", "e", "r", ".", "j", "s", "o", "n">>,
    <<"r", "e", "q", "u", "i", "r", "e", "m", "e", "n", "t", "s", ".", "t", "x", "t">>,
    <<"P", "i", "p", "f", "i", "l", "e">>,
    <<"G", "e", "m", "f", "i", "l", "e">>,
    <<"p", "o", "m", ".", "x", "m", "l">>,
    <<"b", "u", "i", "l", "d", ".", "g", "r", "a", "d", "l", "e">>,
    <<"M", "a", "k", "e", "f", "i", "l", "e">>,
    <<"D", "o", "c", "k", "e", "r", "f", "i", "l", "e">>,
    <<"d", "o", "c", "k", "e", "r", "-", "c", "o", "m", "p", "o", "s", "e", ".", "y", "m", "l">>,
    <<"R", "E", "A", "D", "M", "E">>,
    <<"R", "E", "A", "D", "M", "E", ".", "m", "d">>,
    <<"R", "E", "A", "D", "M", "E", ".", "r", "s", "t">> >>

\* ------------------------------------------------- the cloned repository

\* A directory entry as fs.readdir(dir, {withFileTypes: true}) returns it,
\* with what fs.stat and fs.readFile will answer for it.  type is "dir"
\* (dirent.isDirectory()), "file" (a regular file) or "other" (not a
\* directory for readdir and not a regular file for stat: a socket, a FIFO,
\* a symbolic link to a directory).  size is stats.size in bytes and chars
\* the length of the UTF-8 decoded text, never more than size.
File(name, size, chars) ==
    [name |-> name, type |-> "file", children |-> << >>, size |-> size,
     chars |-> chars, statErr |-> FALSE, readErr |-> FALSE, readdirErr |-> FALSE]

Other(name) ==
    [name |-> name, type |-> "other", children |-> << >>, size |-> 0,
     chars |-> 0, statErr |-> FALSE, readErr |-> FALSE, readdirErr |-> FALSE]

StatFails(name) ==
    [name |-> name, type |-> "file", children |-> << >>, size |-> 10,
     chars |-> 10, statErr |-> TRUE, readErr |-> FALSE, readdirErr |-> FALSE]

ReadFails(name) ==
    [name |-> name, type |-> "file", children |-> << >>, size |-> 10,
     chars |-> 10, statErr |-> FALSE, readErr |-> TRUE, readdirErr |-> FALSE]

Dir(name, children) ==
    [name |-> name, type |-> "dir", children |-> children, size |-> 4096,
     chars |-> 0, statErr |-> FALSE, readErr |-> FALSE, readdirErr |-> FALSE]

UnreadableDir(name) ==
    [name |-> name, type |-> "dir", children |-> << >>, size |-> 4096,
     chars |-> 0, statErr |-> FALSE, readErr |-> FALSE, readdirErr |-> TRUE]

\* n source files f1.ts .. fn.ts, each name led by `pad` filler characters.
Bulk(n, pad) ==
    [i \in 1..n |-> File(Name(pad, <<"f">> \o Digits(i) \o <<".", "t", "s">>), 40, 40)]

\* The key files of a repository, by variant.
KeyPart(v) ==
    CASE v = "none" -> << >>
      [] v = "plain" ->
            << File(Name(0, <<"m", "y", "-", "p", "a", "c", "k", "a", "g", "e", ".", "j", "s", "o", "n">>), 300, 300),
               File(Name(0, <<"D", "O", "C", "K", "E", "R", "F", "I", "L", "E">>), 120, 120),
               File(Name(0, <<"M", "a", "k", "e", "f", "i", "l", "e", ".", "b", "a", "k">>), 80, 80),
               File(Name(0, <<"R", "e", "a", "d", "m", "e", ".", "M", "D">>), 1200, 1100) >>
      [] v = "skips" ->
            << File(Name(0, keyFiles[1]), 60000, 60000),
               File(Name(0, keyFiles[6]), MAX_FILE_READ_SIZE_BYTES, MAX_FILE_READ_SIZE_BYTES),
               Other(Name(0, keyFiles[8])),
               StatFails(Name(0, keyFiles[9])),
               ReadFails(Name(0, keyFiles[11])),
               File(Name(0, keyFiles[12]), 500, 500) >>
      [] v = "deep78" ->
            << Dir(Name(65, << >>), << File(Name(0, keyFiles[1]), 51000, 51000) >>),
               File(Name(0, keyFiles[12]), 500, 500) >>
      [] v = "deep113" ->
            << Dir(Name(100, << >>), << File(Name(0, keyFiles[1]), 51000, 51000) >>),
               File(Name(0, keyFiles[12]), 500, 500) >>
      [] v = "all" ->
            [i \in 1..Len(keyFiles) |-> File(Name(0, keyFiles[i]), 50, 50)]

KeyVariants == {"none", "plain", "skips", "deep78", "deep113", "all"}

BulkCounts == {0, SmallBulk, MAX_FILES_TO_LIST - 8, MAX_FILES_TO_LIST + OverCap}

Pads == {0, LongPad}

\* The shapes of repository a clone may leave in the working directory.
Shapes ==
    [bulk : BulkCounts, pad : Pads, keys : KeyVariants, keysFirst : BOOLEAN,
     walkFails : {FALSE}]
    \cup [bulk : {SmallBulk}, pad : {0}, keys : {"plain"}, keysFirst : BOOLEAN,
          walkFails : {TRUE}]

\* The directory entries of the working directory after the clone, in the
\* order readdir returns them.
Tree(sh) ==
    LET meta == << Dir(Name(0, DotGit),
                       << File(Name(0, <<"H", "E", "A", "D">>), 23, 23),
                          File(Name(0, keyFiles[1]), 10, 10) >>) >>
        deps == Dir(Name(0, NodeModules),
                    << File(Name(0, keyFiles[1]), 200, 200),
                       Dir(Name(0, <<"l", "i", "b">>),
                           << File(Name(0, <<"i", ".", "j", "s">>), 30, 30) >>) >>)
        vendor == Dir(Name(0, <<"v", "e", "n", "d", "o", "r">>),
                      << File(Name(0, DotGit), 30, 30),
                         File(Name(0, <<"m", ".", "g", "o">>), 60, 60) >>
                      \o (IF sh.walkFails
                          THEN << UnreadableDir(Name(0, <<"p", "r", "i", "v">>)) >>
                          ELSE << >>))
        src == Dir(Name(0, <<"s", "r", "c">>),
                   << deps >> \o Bulk(sh.bulk, sh.pad) \o << vendor >>)
    IN  IF sh.keysFirst
        THEN meta \o KeyPart(sh.keys) \o << src >>
        ELSE meta \o << src >> \o KeyPart(sh.keys)

\* --------------------------------------------------------- listFiles

\* A faulty variant of excluded: only .git is skipped.
excludedGitOnly(name) == NameIs(name, DotGit)

\* dirent.name === '.git' || dirent.name === 'node_modules'
excluded(name) == NameIs(name, DotGit) \/ NameIs(name, NodeModules)

RECURSIVE listFilesLoop(_, _, _, _, _, _)
\* listFiles(dir, fileList, rootDir, maxFiles): the for loop over the
\* entries lo..hi of a directory.  The result is [err, list]: err when a
\* readdir below rejected (the await rethrows, the walk ends), list the
\* shared fileList array as the walk left it.  The loop breaks once the
\* array holds maxFiles entries, so an entry met with the array full is
\* never processed.  The range is split in halves, the left before the
\* right, to keep the evaluation shallow.
listFilesLoop(dirents, lo, hi, rel, acc, maxFiles) ==
    IF lo > hi \/ acc.err \/ Len(acc.list) >= maxFiles THEN acc
    ELSE IF lo < hi
    THEN LET mid == (lo + hi) \div 2
         IN  listFilesLoop(dirents, mid + 1, hi, rel,
                           listFilesLoop(dirents, lo, mid, rel, acc, maxFiles),
                           maxFiles)
    ELSE
    LET dirent == dirents[lo]
        res == Append(rel, dirent.name)
    IN  IF excluded(dirent.name) THEN acc
        ELSE IF dirent.type = "dir"
        THEN IF dirent.readdirErr
             THEN [err |-> TRUE, list |-> acc.list]
             ELSE listFilesLoop(dirent.children, 1, Len(dirent.children), res,
                                acc, maxFiles)
        ELSE [err |-> FALSE, list |-> Append(acc.list, res)]

\* listFiles(rootDir, [], rootDir, maxFiles) on the working directory.
listFiles(dirents, maxFiles) ==
    listFilesLoop(dirents, 1, Len(dirents), << >>,
                  [err |-> FALSE, list |-> << >>], maxFiles)

RECURSIVE Lookup(_, _)
\* The directory entry a relative path of the working directory names
\* (path.join(tempDir, actualFileRelPath)).
Lookup(dirents, p) ==
    LET d == CHOOSE e \in {dirents[i] : i \in 1..Len(dirents)} : e.name = p[1]
    IN  IF Len(p) = 1 THEN d ELSE Lookup(d.children, Tail(p))

\* ------------------------------------------------ the Extracted Context

\* One piece appended to extractedContext: what it is, its length in
\* characters, and for a key-file section the key name's index, the file's
\* path, the file's text length and the bounds of the slice of it.
Piece(kind, len) ==
    [kind |-> kind, len |-> len, key |-> 0, path |-> << >>, chars |-> 0,
     from |-> 0, to |-> 0]

TitlePiece == Piece("title", 37)

\* `File List (${Math.min(allFiles.length, MAX_FILES_TO_LIST)} files shown):\n`
HeaderPiece(n) == Piece("header", 11 + DecLen(Min(n, MAX_FILES_TO_LIST)) + 15)

\* `- ${f}\n`
LinePiece(f) == [Piece("line", 2 + PathLen(f) + 1) EXCEPT !.path = f]

\* `- ... (and ${allFiles.length - MAX_FILES_TO_LIST} more files)\n`
MorePiece(k) == [Piece("more", 11 + DecLen(k) + 13) EXCEPT !.to = k]

BlankPiece == Piece("blank", 1)

KeyHeaderPiece == Piece("keyhdr", 19)

PlaceholderPiece == Piece("placeholder", 34)

\* String.prototype.slice(0, end) on a text of n characters: the bounds
\* [0, to) of the characters kept.  A negative end counts from the end of
\* the text.
sliceEnd(n, end) == IF end < 0 THEN Max(n + end, 0) ELSE Min(end, n)

\* `\n--- File: ${actualFileRelPath} ---\n${content.slice(0, ...)}\n---\n`
SectionPiece(key, f, chars, total) ==
    LET to == sliceEnd(chars, MAX_TOTAL_CONTEXT_LENGTH - total - 100)
    IN  [kind |-> "section", len |-> 11 + PathLen(f) + 5 + to + 5, key |-> key,
         path |-> f, chars |-> chars, from |-> 0, to |-> to]

\* totalContextLength + s.length < MAX_TOTAL_CONTEXT_LENGTH
fits(total, len) == total + len < MAX_TOTAL_CONTEXT_LENGTH

RECURSIVE renderLines(_, _, _, _)
\* allFiles.slice(0, MAX_FILES_TO_LIST).forEach(...): [ctx, total] after the
\* lines lo..hi of the listing, the left half before the right.  No line
\* fits once the tracked total has reached the budget; looking at the total
\* first keeps the evaluation shallow.
renderLines(files, lo, hi, acc) ==
    IF acc.total >= MAX_TOTAL_CONTEXT_LENGTH \/ lo > hi THEN acc
    ELSE IF lo < hi
    THEN LET mid == (lo + hi) \div 2
         IN  renderLines(files, mid + 1, hi, renderLines(files, lo, mid, acc))
    ELSE LET line == LinePiece(files[lo])
         IN  IF fits(acc.total, line.len)
             THEN [ctx |-> Append(acc.ctx, line), total |-> acc.total + line.len]
             ELSE acc

\* extractedContext and totalContextLength from the title up to the
\* "Key File Contents:" header.
renderListing(files) ==
    LET start == << TitlePiece, HeaderPiece(Len(files)) >>
        lines == renderLines(files, 1, Min(Len(files), MAX_FILES_TO_LIST),
                             [ctx |-> start, total |-> TitlePiece.len])
        more  == IF Len(files) > MAX_FILES_TO_LIST
                 THEN << MorePiece(Len(files) - MAX_FILES_TO_LIST) >>
                 ELSE << >>
    IN  [ctx |-> lines.ctx \o more \o << BlankPiece, KeyHeaderPiece >>,
         total |-> lines.total]

\* allFiles.find(f => f.toLowerCase().endsWith(key.toLowerCase())): the
\* index of the first match, 0 for undefined.
find(files, key) ==
    LET hits == {i \in 1..Len(files) : endsWith(files[i], key)}
    IN  IF hits = {} THEN 0 ELSE CHOOSE i \in hits : \A j \in hits : i <= j

\* A faulty variant of statsAllowRead: the size is not looked at.
statsAllowReadAnySize(d) == d.type = "file"

\* stats.isFile() && stats.size <= MAX_FILE_READ_SIZE_BYTES
statsAllowRead(d) == d.type = "file" /\ d.size <= MAX_FILE_READ_SIZE_BYTES

RECURSIVE SumLen(_, _, _)
SumLen(ctx, lo, hi) ==
    IF lo > hi THEN 0
    ELSE IF lo = hi THEN ctx[lo].len
    ELSE SumLen(ctx, lo, (lo + hi) \div 2) + SumLen(ctx, (lo + hi) \div 2 + 1, hi)

\* extractedContext.length
ContextLength(ctx) == SumLen(ctx, 1, Len(ctx))

\* ---------------------------------------------------- errors and values

\* A thrown value: error.code ("none" for undefined) and error.message as
\* words (<< >> for a missing or empty message).
Err(code, message) == [code |-> code, message |-> message]

\* String.prototype.includes, on sequences of words.
includes(msg, part) ==
    \E i \in 0..(Len(msg) - Len(part)) : SubSeq(msg, i + 1, i + Len(part)) = part

\* What request.json() rejects with on a malformed body.
JsonErrors == { Err("none", <<"Unexpected", "token", "in", "JSON">>) }

\* const { repoUrl } = body, on a body that is null.
DestructureError ==
    Err("none", <<"Cannot", "destructure", "property", "'repoUrl'", "of",
                  "'body'", "as", "it", "is", "null.">>)

MkdtempErrors ==
    { Err("EACCES", <<"EACCES:", "permission", "denied,", "mkdtemp", "'/tmp/gemini-readme-XXXXXX'">>),
      Err("ENOENT", <<"ENOENT:", "no", "such", "file", "or", "directory,", "mkdtemp", "'/tmp/gemini-readme-XXXXXX'">>) }

\* What git.clone rejects with: a repository that does not exist, a private
\* repository, a host that does not resolve, a missing git binary.
CloneErrors ==
    { Err("none", <<"fatal:", "repository", "'https://h/r/'", "not", "found">>),
      Err("none", <<"fatal:", "Authentication", "failed", "for", "'https://h/r/'">>),
      Err("none", <<"fatal:", "unable", "to", "access", "'https://h/r/':", "Could", "not", "resolve", "host:", "h">>),
      Err("ENOENT", <<"spawn", "git", "ENOENT">>) }

ReaddirError == Err("EACCES", <<"EACCES:", "permission", "denied,", "scandir", "'priv'">>)

\* What model.generateContent rejects with; the second carries no message.
GenerateErrors ==
    { Err("none", <<"[GoogleGenerativeAI", "Error]:", "fetch", "failed">>),
      Err("none", << >>) }

\* What response.text() throws for a blocked candidate.
TextError ==
    Err("none", <<"[GoogleGenerativeAI", "Error]:", "Candidate", "was", "blocked", "due", "to", "SAFETY">>)

GenericMessage == <<"An", "internal", "server", "error", "occurred.">>

CloneMessage ==
    <<"Failed", "to", "clone", "repository.", "Check", "URL", "and", "ensure", "it's", "public.">>

MkdtempMessage == <<"Failed", "to", "create", "temporary", "directory", "on", "server.">>

ApiKeyMessage == <<"API", "Key", "not", "configured.">>

InvalidUrlMessage == <<"Invalid", "repository", "URL", "provided.">>

\* `Failed to generate content. Reason: ${finishReason || 'Unknown'}.
\*  Feedback: ${JSON.stringify(feedback)}`
GenerationFailedMessage(finishReason, feedback) ==
    <<"Failed", "to", "generate", "content.", "Reason:",
      IF finishReason = "undefined" THEN "Unknown" ELSE finishReason,
      "Feedback:", feedback>>

\* A JSON value of the request body's repoUrl: its typeof, whether it is
\* truthy, and the characters of a string.
Val(t, truthy, chars) == [t |-> t, truthy |-> truthy, chars |-> chars]

Undefined == Val("undefined", FALSE, << >>)

Http == <<"h", "t", "t", "p", ":", "/", "/">>

Https == <<"h", "t", "t", "p", "s", ":", "/", "/">>

\* String.prototype.startsWith
startsWith(str, prefix) ==
    Len(str) >= Len(prefix) /\ SubSeq(str, 1, Len(prefix)) = prefix

\* The bodies request.json() may resolve to: null, a value with no repoUrl
\* property (an empty object, an array, a number, a string), and objects
\* whose repoUrl is a number, zero, an empty string, an object, or a string.
Bodies ==
    { [isNull |-> TRUE, repoUrl |-> Undefined],
      [isNull |-> FALSE, repoUrl |-> Undefined],
      [isNull |-> FALSE, repoUrl |-> Val("object", FALSE, << >>)],
      [isNull |-> FALSE, repoUrl |-> Val("number", TRUE, << >>)],
      [isNull |-> FALSE, repoUrl |-> Val("number", FALSE, << >>)],
      [isNull |-> FALSE, repoUrl |-> Val("object", TRUE, << >>)],
      [isNull |-> FALSE, repoUrl |-> Val("string", FALSE, << >>)],
      [isNull |-> FALSE, repoUrl |-> Val("string", TRUE, <<"f", "t", "p", ":", "/", "/", "h", "/", "r">>)],
      [isNull |-> FALSE, repoUrl |-> Val("string", TRUE, <<"h", "t", "t", "p", "s", ":", "/", "h">>)],
      [isNull |-> FALSE, repoUrl |-> Val("string", TRUE, <<" ">> \o Https \o <<"h", "/", "r">>)],
      [isNull |-> FALSE, repoUrl |-> Val("string", TRUE, Http \o <<"h", "/", "r">>)],
      [isNull |-> FALSE, repoUrl |-> Val("string", TRUE, Https \o <<"h", "/", "r">>)] }

\* !repoUrl || typeof repoUrl !== 'string' ||
\* (!repoUrl.startsWith('http://') && !repoUrl.startsWith('https://'))
invalidRepoUrl(v) ==
    \/ ~v.truthy
    \/ v.t # "string"
    \/ (~startsWith(v.chars, Http) /\ ~startsWith(v.chars, Https))

\* generationResult.response: whether it is there, whether it has a
\* candidates member and the finish reasons of the candidates in it,
\* whether it has a text member, JSON.stringify of its promptFeedback, and
\* what text() does ("throws" or the text returned).
Resp(present, hasCandidates, candidates, hasText, feedback, text) ==
    [present |-> present, hasCandidates |-> hasCandidates,
     candidates |-> candidates, hasText |-> hasText, feedback |-> feedback,
     text |-> text]

Responses ==
    { Resp(TRUE, TRUE, <<"STOP">>, TRUE, "undefined", "# Hello"),
      Resp(TRUE, TRUE, << >>, TRUE, "{blockReason:SAFETY}", "throws"),
      Resp(TRUE, FALSE, << >>, TRUE, "{blockReason:OTHER}", "throws"),
      Resp(TRUE, TRUE, <<"SAFETY">>, TRUE, "{safetyRatings:[]}", "throws"),
      Resp(TRUE, TRUE, <<"MAX_TOKENS">>, TRUE, "undefined", ""),
      Resp(TRUE, TRUE, <<"SAFETY">>, FALSE, "{safetyRatings:[]}", "throws"),
      Resp(FALSE, FALSE, << >>, FALSE, "undefined", "throws") }

\* response && response.candidates && response.candidates.length > 0
\* && response.text
usable(r) ==
    /\ r.present
    /\ r.hasCandidates
    /\ Len(r.candidates) > 0
    /\ r.hasText

\* response?.candidates?.[0]?.finishReason
firstFinishReason(r) ==
    IF r.present /\ r.hasCandidates /\ Len(r.candidates) > 0
    THEN r.candidates[1] ELSE "undefined"

\* NextResponse.json(body, {status})
Json(status, field, value) == [status |-> status, field |-> field, value |-> value]

\* The catch block's choice of errorMessage.
errorMessageOf(error) ==
    IF error.code = "ENOENT" \/ includes(error.message, <<"Authentication", "failed">>)
    THEN CloneMessage
    ELSE IF includes(error.message, <<"mkdtemp">>)
    THEN MkdtempMessage
    ELSE IF error.message # << >>
    THEN error.message
    ELSE GenericMessage

\* ------------------------------------------------------------- state

VARIABLES
    genAI,                \* whether the module-level client was constructed
    pc,                   \* where POST is
    body,                 \* what request.json() resolved to
    tempDir,              \* "null" or the path mkdtemp returned
    dirExists,            \* whether the working directory exists on disk
    repo,                 \* the shape of the cloned tree, once cloned
    allFiles,             \* the file listing
    extractedContext,     \* the pieces appended to extractedContext
    totalContextLength,
    keyIndex,             \* the position of the key-file loop in keyFiles
    filesReadCount,
    keyLog,               \* what each finished iteration of the loop did
    response,             \* generationResult.response
    error,                \* the value the catch block caught
    failedAt,             \* the step that threw it
    completion,           \* the response the try or catch block returned
    result,               \* the response POST resolved to
    calls                 \* how often each external operation was called

vars == <<genAI, pc, body, tempDir, dirExists, repo, allFiles, extractedContext,
          totalContextLength, keyIndex, filesReadCount, keyLog, response,
          error, failedAt, completion, result, calls>>

None == [status |-> 0, field |-> "none", value |-> << >>]

NoRepo == [bulk |-> 0, pad |-> 0, keys |-> "unset", keysFirst |-> FALSE, walkFails |-> FALSE]

NoBody == [isNull |-> FALSE, repoUrl |-> Val("unset", FALSE, << >>)]

NoError == Err("unset", << >>)

NoResponse == Resp(FALSE, FALSE, << >>, FALSE, "unset", "unset")

extraction == <<allFiles, extractedContext, totalContextLength, keyIndex,
                filesReadCount, keyLog>>

Init ==
    /\ genAI \in BOOLEAN
    /\ pc = "start"
    /\ body = NoBody
    /\ tempDir = "null"
    /\ dirExists = FALSE
    /\ repo = NoRepo
    /\ allFiles = << >>
    /\ extractedContext = << >>
    /\ totalContextLength = 0
    /\ keyIndex = 0
    /\ filesReadCount = 0
    /\ keyLog = << >>
    /\ response = NoResponse
    /\ error = NoError
    /\ failedAt = "none"
    /\ completion = None
    /\ result = None
    /\ calls = [json |-> 0, mkdtemp |-> 0, clone |-> 0, generate |-> 0, rm |-> 0,
                rmOk |-> 0]

\* A rejected await or a throw inside the try block: control goes to catch.
Throw(e, at) ==
    /\ error' = e
    /\ failedAt' = at
    /\ pc' = "catch"

\* A return inside the try or catch block: the finally block runs next.
Return(r) ==
    /\ completion' = r
    /\ pc' = "finally"

\* A faulty variant of CheckClient: the client is not looked at.
CheckClientMissing ==
    /\ pc = "start"
    /\ pc' = "body"
    /\ UNCHANGED <<genAI, body, tempDir, dirExists, repo, extraction, response,
                   error, failedAt, completion, result, calls>>

\* if (!genAI) return 500, before the try block.
CheckClient ==
    /\ pc = "start"
    /\ IF ~genAI
       THEN /\ result' = Json(500, "error", ApiKeyMessage)
            /\ pc' = "done"
       ELSE /\ pc' = "body"
            /\ UNCHANGED result
    /\ UNCHANGED <<genAI, body, tempDir, dirExists, repo, extraction, response, error,
                   failedAt, completion, calls>>

\* await request.json(), the destructuring and the check of repoUrl.
ReadBody ==
    /\ pc = "body"
    /\ calls' = [calls EXCEPT !.json = @ + 1]
    /\ \/ \E e \in JsonErrors :
             /\ Throw(e, "json")
             /\ UNCHANGED <<body, completion>>
       \/ \E b \in Bodies :
             /\ body' = b
             /\ IF b.isNull
                THEN /\ Throw(DestructureError, "destructure")
                     /\ UNCHANGED completion
                ELSE IF invalidRepoUrl(b.repoUrl)
                THEN /\ Return(Json(400, "error", InvalidUrlMessage))
                     /\ UNCHANGED <<error, failedAt>>
                ELSE /\ pc' = "mkdtemp"
                     /\ UNCHANGED <<error, failedAt, completion>>
    /\ UNCHANGED <<genAI, tempDir, dirExists, repo, extraction, response, result>>

\* tempDir = await fs.mkdtemp(...)
MakeTempDir ==
    /\ pc = "mkdtemp"
    /\ calls' = [calls EXCEPT !.mkdtemp = @ + 1]
    /\ \/ \E e \in MkdtempErrors :
             /\ Throw(e, "mkdtemp")
             /\ UNCHANGED <<tempDir, dirExists>>
       \/ /\ tempDir' = "/tmp/gemini-readme-XXXXXX"
          /\ dirExists' = TRUE
          /\ pc' = "clone"
          /\ UNCHANGED <<error, failedAt>>
    /\ UNCHANGED <<genAI, body, repo, extraction, response, completion, result>>

\* await git.clone(repoUrl, '.', ['--depth=1'])
Clone ==
    /\ pc = "clone"
    /\ calls' = [calls EXCEPT !.clone = @ + 1]
    /\ \/ \E e \in CloneErrors :
             /\ Throw(e, "clone")
             /\ UNCHANGED repo
       \/ \E sh \in Shapes :
             /\ repo' = sh
             /\ pc' = "extract"
             /\ UNCHANGED <<error, failedAt>>
    /\ UNCHANGED <<genAI, body, tempDir, dirExists, extraction, response, completion, result>>

\* await listFiles(tempDir, [], tempDir, MAX_FILES_TO_LIST) and the
\* rendering of the listing, up to the "Key File Contents:" header.
Extract ==
    /\ pc = "extract"
    /\ LET walk == listFiles(Tree(repo), MAX_FILES_TO_LIST)
           r == renderListing(walk.list)
       IN  IF walk.err
           THEN /\ Throw(ReaddirError, "walk")
                /\ UNCHANGED extraction
           ELSE /\ allFiles' = walk.list
                /\ extractedContext' = r.ctx
                /\ totalContextLength' = r.total
                /\ keyIndex' = 1
                /\ filesReadCount' = 0
                /\ keyLog' = << >>
                /\ pc' = "keyfiles"
                /\ UNCHANGED <<error, failedAt>>
    /\ UNCHANGED <<genAI, body, tempDir, dirExists, repo, response, completion, result, calls>>

\* A faulty variant of sectionOutcome: a section that does not fit is
\* dropped and the loop goes on (continue for break).
sectionOutcomeContinue(total, section) ==
    IF fits(total, section.len) THEN "included" ELSE "dropped"

\* What the loop does with a section once it is built: append it, or
\* break out of the loop.
sectionOutcome(total, section) ==
    IF fits(total, section.len) THEN "included" ELSE "break"

\* One iteration of the loop over keyFiles for the key name at index i:
\* the outcome and the section built, if one was.
keyFileIteration(tree, files, i, total) ==
    LET at == find(files, keyFiles[i])
        f == files[at]
        d == Lookup(tree, f)
        section == SectionPiece(i, f, d.chars, total)
    IN  IF at = 0 THEN [outcome |-> "nomatch", path |-> << >>, section |-> BlankPiece]
        ELSE IF d.statErr THEN [outcome |-> "staterr", path |-> f, section |-> BlankPiece]
        ELSE IF ~statsAllowRead(d) THEN [outcome |-> "notread", path |-> f, section |-> BlankPiece]
        ELSE IF d.readErr THEN [outcome |-> "readerr", path |-> f, section |-> BlankPiece]
        ELSE [outcome |-> sectionOutcome(total, section), path |-> f, section |-> section]

\* for (const potentialFileRelPath of keyFiles) { ... }: the loop's test
\* and one iteration of its body.
KeyFileLoop ==
    /\ pc = "keyfiles"
    /\ IF keyIndex > Len(keyFiles) \/ filesReadCount >= MAX_FILE_CONTENT_TO_INCLUDE
       THEN /\ pc' = "afterloop"
            /\ UNCHANGED extraction
       ELSE LET it == keyFileIteration(Tree(repo), allFiles, keyIndex, totalContextLength)
                entry == [key |-> keyIndex, outcome |-> it.outcome, path |-> it.path,
                          total |-> totalContextLength]
            IN  /\ keyLog' = Append(keyLog, entry)
                /\ keyIndex' = keyIndex + 1
                /\ IF it.outcome = "included"
                   THEN /\ extractedContext' = Append(extractedContext, it.section)
                        /\ totalContextLength' = totalContextLength + it.section.len
                        /\ filesReadCount' = filesReadCount + 1
                   ELSE UNCHANGED <<extractedContext, totalContextLength, filesReadCount>>
                /\ pc' = IF it.outcome = "break" THEN "afterloop" ELSE "keyfiles"
                /\ UNCHANGED allFiles
    /\ UNCHANGED <<genAI, body, tempDir, dirExists, repo, response, error, failedAt,
                   completion, result, calls>>

\* After the loop: the placeholder, the prompt, and the call of
\* model.generateContent(prompt).
Generate ==
    /\ pc = "afterloop"
    /\ extractedContext' = IF filesReadCount = 0
                           THEN Append(extractedContext, PlaceholderPiece)
                           ELSE extractedContext
    /\ calls' = [calls EXCEPT !.generate = @ + 1]
    /\ \/ \E e \in GenerateErrors :
             /\ Throw(e, "generate")
             /\ UNCHANGED response
       \/ \E r \in Responses :
             /\ response' = r
             /\ pc' = "process"
             /\ UNCHANGED <<error, failedAt>>
    /\ UNCHANGED <<genAI, body, tempDir, dirExists, repo, allFiles, totalContextLength,
                   keyIndex, filesReadCount, keyLog, completion, result>>

\* 6. Process Response
ProcessResponse ==
    /\ pc = "process"
    /\ IF usable(response)
       THEN IF response.text = "throws"
            THEN /\ Throw(TextError, "text")
                 /\ UNCHANGED completion
            ELSE /\ Return(Json(200, "readme", <<response.text>>))
                 /\ UNCHANGED <<error, failedAt>>
       ELSE /\ Return(Json(500, "error",
                           GenerationFailedMessage(firstFinishReason(response),
                                                   response.feedback)))
            /\ UNCHANGED <<error, failedAt>>
    /\ UNCHANGED <<genAI, body, tempDir, dirExists, repo, extraction, response, result, calls>>

\* catch (error: any) { ... return 500 }
Catch ==
    /\ pc = "catch"
    /\ Return(Json(500, "error", errorMessageOf(error)))
    /\ UNCHANGED <<genAI, body, tempDir, dirExists, repo, extraction, response, error,
                   failedAt, result, calls>>

\* A faulty variant of Finally: the directory is removed only after an
\* error response, as if the removal stood in the catch block.
FinallyAfterErrorOnly ==
    /\ pc = "finally"
    /\ IF tempDir # "null" /\ completion.status # 200
       THEN \E removed \in BOOLEAN :
               /\ calls' = [calls EXCEPT !.rm = @ + 1,
                                         !.rmOk = @ + (IF removed THEN 1 ELSE 0)]
               /\ dirExists' = (dirExists /\ ~removed)
       ELSE UNCHANGED <<calls, dirExists>>
    /\ result' = completion
    /\ pc' = "done"
    /\ UNCHANGED <<genAI, body, tempDir, repo, extraction, response, error,
                   failedAt, completion>>

\* finally { if (tempDir) await fs.rm(...).catch(log) }, after which POST
\* resolves to the response returned.  The removal may fail: the failure
\* is logged and the directory stays.
Finally ==
    /\ pc = "finally"
    /\ IF tempDir # "null"
       THEN \E removed \in BOOLEAN :
               /\ calls' = [calls EXCEPT !.rm = @ + 1,
                                         !.rmOk = @ + (IF removed THEN 1 ELSE 0)]
               /\ dirExists' = (dirExists /\ ~removed)
       ELSE UNCHANGED <<calls, dirExists>>
    /\ result' = completion
    /\ pc' = "done"
    /\ UNCHANGED <<genAI, body, tempDir, repo, extraction, response, error, failedAt,
                   completion>>

Next ==
    \/ CheckClient
    \/ ReadBody
    \/ MakeTempDir
    \/ Clone
    \/ Extract
    \/ KeyFileLoop
    \/ Generate
    \/ ProcessResponse
    \/ Catch
    \/ Finally

Spec == Init /\ [][Next]_vars

\* ===================================================== the properties

\* The listing has been taken: the walk ended without an error.
Listed == keyIndex >= 1

\* The prompt has been built from extractedContext.
PromptBuilt == calls.generate >= 1

RECURSIVE NonExcludedFiles(_, _)
\* The relative paths of the entries of a tree that are not directories,
\* are not named .git or node_modules, and lie in no directory so named.
NonExcludedFiles(dirents, rel) ==
    UNION { LET d == dirents[i]
            IN  IF NameIs(d.name, DotGit) \/ NameIs(d.name, NodeModules) THEN {}
                ELSE IF d.type = "dir"
                THEN NonExcludedFiles(d.children, Append(rel, d.name))
                ELSE {Append(rel, d.name)}
          : i \in 1..Len(dirents) }

\* The entry of a table of <<shape, value>> pairs for a shape.
At(table, sh) == (CHOOSE p \in table : p[1] = sh)[2]

\* The non-excluded files of each shape of repository.
TrueFilesOf == {<<sh, NonExcludedFiles(Tree(sh), << >>)>> : sh \in Shapes}

TrueFiles == At(TrueFilesOf, repo)

Pieces(kind) == {i \in 1..Len(extractedContext) : extractedContext[i].kind = kind}

Sections == SelectSeq(extractedContext, LAMBDA p : p.kind = "section")

\* C1: the Extracted Context embedded in the prompt is never longer than
\* MAX_TOTAL_CONTEXT_LENGTH characters, every piece appended to it counted.
C1_ContextWithinBudget ==
    PromptBuilt => ContextLength(extractedContext) <= MAX_TOTAL_CONTEXT_LENGTH

\* C3: for a repository of more than MAX_FILES_TO_LIST non-excluded files,
\* the listing has exactly MAX_FILES_TO_LIST entries and the context holds
\* a "... (and K more files)" line, K the true count less the cap.
C3_OmittedCountNoted ==
    (PromptBuilt /\ Cardinality(TrueFiles) > MAX_FILES_TO_LIST) =>
        /\ Len(allFiles) = MAX_FILES_TO_LIST
        /\ \E i \in Pieces("more") :
              extractedContext[i].to = Cardinality(TrueFiles) - MAX_FILES_TO_LIST

\* C4: for a tree of fewer than MAX_FILES_TO_LIST non-excluded files,
\* listFiles returns exactly one relative path per such file, none twice,
\* and no path with a component named .git or node_modules.
C4_ListingExact ==
    (Listed /\ Cardinality(TrueFiles) < MAX_FILES_TO_LIST) =>
        /\ {allFiles[i] : i \in 1..Len(allFiles)} = TrueFiles
        /\ Len(allFiles) = Cardinality(TrueFiles)
        /\ \A i \in 1..Len(allFiles) : \A k \in 1..Len(allFiles[i]) :
              /\ ~NameIs(allFiles[i][k], DotGit)
              /\ ~NameIs(allFiles[i][k], NodeModules)

\* A listing of a small tree that holds a .git directory, a file named
\* .git and a nested node_modules directory has been taken.
C4_Witness ==
    /\ Listed
    /\ Cardinality(TrueFiles) < MAX_FILES_TO_LIST
    /\ Len(allFiles) > SmallBulk
    /\ repo.keys = "plain"

\* POST has resolved to a response.
Delivered == pc = "done"

NoSideEffect ==
    /\ tempDir = "null"
    /\ ~dirExists
    /\ calls.mkdtemp = 0
    /\ calls.clone = 0
    /\ calls.generate = 0

\* C2: whenever POST has created a working directory, its removal has
\* been attempted by the time the response is delivered, on every exit
\* path; when the removal succeeded the directory no longer exists.
C2_CleanupBeforeResponse ==
    /\ (Delivered /\ calls.mkdtemp >= 1 /\ tempDir # "null") =>
          /\ calls.rm = 1
          /\ (calls.rmOk = 1 => ~dirExists)
    /\ (result # None) => Delivered
    /\ dirExists => tempDir # "null"

\* The response to a failed clone has been delivered and the working
\* directory made for it is gone.
C2_Witness ==
    /\ Delivered
    /\ failedAt = "clone"
    /\ calls.mkdtemp = 1
    /\ calls.rmOk = 1
    /\ ~dirExists

\* C5: a body whose repoUrl is missing, not a string, or not beginning
\* with http:// or https:// is answered with HTTP 400 and an error field,
\* and nothing was done for it: no working directory, no clone, no
\* generation call.
C5_InvalidInputRejected ==
    (Delivered /\ body # NoBody /\ (body.isNull \/ invalidRepoUrl(body.repoUrl))) =>
        /\ result.status = 400
        /\ result.field = "error"
        /\ NoSideEffect

\* C6: with no credential, POST answers HTTP 500 with an error field at
\* once: the body is not read, no working directory is made, and neither
\* the clone nor the generation call is attempted.
C6_MissingCredentialFailsFirst ==
    ~genAI =>
        /\ pc \in {"start", "done"}
        /\ calls.json = 0
        /\ body = NoBody
        /\ NoSideEffect
        /\ Delivered => (result.status = 500 /\ result.field = "error")

C6_Witness ==
    /\ ~genAI
    /\ Delivered
    /\ result = Json(500, "error", ApiKeyMessage)

\* C7: a failed clone, whatever its cause, is answered with HTTP 500 whose
\* error field is the clone-specific message.
C7_CloneFailureMessage ==
    (Delivered /\ failedAt = "clone") =>
        result = Json(500, "error", CloneMessage)

\* A response with no usable text: none at all, no candidate list, an
\* empty candidate list, a blocked candidate, or an empty text.
NoUsableText(r) ==
    \/ ~r.present
    \/ ~r.hasCandidates
    \/ r.candidates = << >>
    \/ r.text = "throws"
    \/ r.text = ""

\* C9: a generation response that is empty, filtered or without a
\* candidate is answered, with no exception thrown while it is processed,
\* by HTTP 500 whose error field carries the response's finish reason and
\* safety feedback.
C9_BlockedGenerationReported ==
    (Delivered /\ response # NoResponse /\ NoUsableText(response)) =>
        /\ failedAt = "none"
        /\ result = Json(500, "error",
                         GenerationFailedMessage(firstFinishReason(response),
                                                 response.feedback))

\* The key names whose section is in the context.
IncludedKeys == {Sections[a].key : a \in 1..Len(Sections)}

Keys == 1..Len(keyFiles)

\* The tracked total when the loop reaches key name i: the title, the
\* listing lines kept, and the sections of the earlier key names.
TotalAt(i) ==
    LET before == SelectSeq(extractedContext,
                            LAMBDA p : \/ p.kind \in {"title", "line"}
                                       \/ p.kind = "section" /\ p.key < i)
    IN  SumLen(before, 1, Len(before))

\* The listing listFiles gives of each shape of repository.
ListingOf == {<<sh, listFiles(Tree(sh), MAX_FILES_TO_LIST).list>> : sh \in Shapes}

\* For each shape of repository and each key name, the file of the listing
\* the key name selects (at, 0 for none) and what the tree says of that
\* file: its text length, whether stat and readFile let it through (a
\* regular file within the size cap, no error from either call), and why
\* not.
KeyFactsOf ==
    { <<sh,
        [i \in Keys |->
            LET files == At(ListingOf, sh)
                at == find(files, keyFiles[i])
            IN  IF at = 0
                THEN [at |-> 0, path |-> << >>, chars |-> 0, readable |-> FALSE,
                      why |-> "nomatch"]
                ELSE LET d == Lookup(Tree(sh), files[at])
                     IN  [at |-> at,
                          path |-> files[at],
                          chars |-> d.chars,
                          readable |-> /\ d.type = "file"
                                       /\ d.size <= MAX_FILE_READ_SIZE_BYTES
                                       /\ ~d.statErr
                                       /\ ~d.readErr,
                          why |-> IF d.statErr THEN "stat"
                                  ELSE IF d.type # "file" THEN "type"
                                  ELSE IF d.size > MAX_FILE_READ_SIZE_BYTES THEN "size"
                                  ELSE IF d.readErr THEN "read"
                                  ELSE "none"]] \o << >> >> : sh \in Shapes }

\* The facts of the key names for the repository cloned, with whether the
\* section of each, built at the key name's turn, keeps the total under
\* the budget.
KeyTable ==
    [i \in Keys |->
        LET k == At(KeyFactsOf, repo)[i]
            total == TotalAt(i)
        IN  [at |-> k.at, path |-> k.path, readable |-> k.readable, why |-> k.why,
             fits |-> total + 11 + PathLen(k.path) + 5
                        + sliceEnd(k.chars, MAX_TOTAL_CONTEXT_LENGTH - total - 100)
                        + 5 < MAX_TOTAL_CONTEXT_LENGTH]] \o << >>

\* C8: the sections stand in the order of keyFiles; when the section of a
\* key name is included, so is that of every earlier key name whose file
\* was readable and fitted the budget at its turn; once a section has
\* failed the budget check no later key name has a section.
C8_PriorityOrder ==
    Listed =>
        LET t == KeyTable
            inc == IncludedKeys
        IN  /\ allFiles = At(ListingOf, repo)
            /\ \A a, b \in 1..Len(Sections) :
                  a < b => Sections[a].key < Sections[b].key
            /\ \A j \in inc : \A i \in Keys :
                  (i < j /\ t[i].readable /\ t[i].fits) => i \in inc
            /\ \A i \in Keys :
                  (t[i].readable /\ ~t[i].fits) => \A j \in inc : j < i

\* A request has ended whose loop included the sections of earlier key
\* names, then met a readable key file whose section did not fit, and so
\* left out a later readable key file.
C8_Witness ==
    /\ Delivered
    /\ Listed
    /\ LET t == KeyTable
           inc == IncludedKeys
       IN  \E i, j \in Keys :
              /\ i < j
              /\ i < keyIndex
              /\ t[i].readable /\ ~t[i].fits
              /\ t[j].readable /\ j \notin inc
              /\ \E h \in inc : h < i

\* C10: a matched key file that is too large, not a regular file, or
\* fails stat or readFile has no section and is not counted as read; it
\* sends no error to the catch block, and the loop goes on to the next
\* key name.
C10_PassedOverHarmless ==
    Listed =>
        LET t == KeyTable
            passedOver == {i \in Keys : t[i].at # 0 /\ ~t[i].readable}
        IN  /\ allFiles = At(ListingOf, repo)
            /\ \A i \in passedOver :
                  \A a \in 1..Len(Sections) :
                      Sections[a].key # i /\ Sections[a].path # t[i].path
            /\ filesReadCount = Len(Sections)
            /\ failedAt \in {"none", "generate", "text"}
            /\ \A n \in 1..Len(keyLog) :
                  keyLog[n].key \in passedOver =>
                     \/ Len(keyLog) > n
                     \/ keyLog[n].key = Len(keyFiles)
                     \/ pc = "keyfiles" /\ keyIndex = keyLog[n].key + 1

\* A request has ended with key files of all four kinds passed over, one
\* of them the first key name, and the section of a later key name
\* included.
C10_Witness ==
    /\ Delivered
    /\ Listed
    /\ result.status = 200
    /\ LET t == KeyTable
       IN  /\ \A w \in {"stat", "type", "size", "read"} :
                  \E i \in Keys : i < keyIndex /\ t[i].why = w
           /\ \E i, j \in Keys :
                  i < j /\ t[i].why = "size" /\ j \in IncludedKeys

\* The places where an error the handler has no message of its own for is
\* thrown: request.json() on a malformed body, the destructuring of a null
\* body, a readdir of the walk, the call of model.generateContent.
Unanticipated == {"json", "destructure", "walk", "generate"}

\* C11: an unanticipated error thrown inside POST (neither a clone failure
\* nor a blocked generation) is answered with HTTP 500 whose error field is
\* the fixed generic internal-error message, never the raw message of the
\* error thrown and never the clone-failure message.
C11_UnanticipatedErrorGeneric ==
    (Delivered /\ failedAt \in Unanticipated) =>
        result = Json(500, "error", GenericMessage)

\* The length of the whole text of a key file wrapped in its header and
\* footer.
WholeWrapped(s) == 11 + PathLen(s.path) + 5 + s.chars + 5

\* C12: the content of every key-file section in the context is a prefix
\* of the file's text, and it is the whole text whenever the whole text
\* wrapped in the header and footer would keep the tracked total under
\* MAX_TOTAL_CONTEXT_LENGTH.
C12_SectionPrefixWholeWhenFits ==
    Listed =>
        \A a \in 1..Len(Sections) :
            LET s == Sections[a]
            IN  /\ s.from = 0
                /\ s.to <= s.chars
                /\ fits(TotalAt(s.key), WholeWrapped(s)) => s.to = s.chars

====
